---- MODULE Spec2Model ----
(***************************************************************************)
(* One login attempt of main.py: login_endpoint -> naver_login ->          *)
(* connect_to_browserless, against a remote browser and a remote login     *)
(* page whose behaviour (faults, timeouts, location, cookies) is chosen    *)
(* nondeterministically.                                                   *)
(*                                                                         *)
(* Texts (URLs, messages, exception texts) are sequences of tokens: a      *)
(* string literal of the source is one token, an f-string or a             *)
(* concatenation is \o, `s in text` is token membership, str.replace is    *)
(* token replacement.                                                      *)
(***************************************************************************)
EXTENDS Integers, Sequences, FiniteSets, TLC

VARIABLES
    pc,                  \* position of the attempt in the code
    BROWSERLESS_WS_URL,  \* os.getenv("BROWSERLESS_WS_URL"): [set, val]
    username, password,  \* arguments of naver_login (sequences of characters)
    c_playwright,        \* connect_to_browserless: local `playwright` is bound
    connection_options,  \* connect_to_browserless: candidate list
    optIdx,              \* connect_to_browserless: index of the candidate tried
    last_error,          \* connect_to_browserless: last_error ([set, e])
    c_browser,           \* connect_to_browserless: local `browser` (0 = unbound)
    playwright,          \* naver_login: local `playwright` is not None
    browser,             \* naver_login: local `browser` (0 = None, else a handle)
    contextBound,        \* naver_login: 'context' in locals()
    randomBound,         \* naver_login: local `random` is bound (import ran)
    charIdx,             \* naver_login: loop index of the typing loops
    selIdx,              \* naver_login: loop index over login_button_selectors
    button,              \* naver_login: probe state of the current candidate
    login_clicked,       \* naver_login: login_clicked
    current_url,         \* naver_login: current_url of the except branch
    cookie_dict,         \* naver_login: cookie_dict ([set, map])
    exc,                 \* exception in flight ([set, e])
    resp,                \* LoginResponse being returned ([set, r])
    outcome,             \* how naver_login ended: "none", "returned", "raised"
    http,                \* status login_endpoint answers with (0 = not yet)
    \* ---- the remote side and the record of what the attempt did to it ----
    acquired,            \* per resource: times it was acquired
    released,            \* per resource: times its stop/close was invoked
    releaseOrder,        \* resources in the order their release was invoked
    releaseFailed,       \* the stop/close invoked last raised
    opened,              \* browser handles connect_over_cdp yielded (1, 2, ...)
    focus,               \* element holding keyboard focus
    keys,                \* per field: keystrokes dispatched into it
    submits,             \* submit actions that succeeded, in order
    pageUrl,             \* location of the page
    ctxCookies,          \* cookies of the browsing context (list)
    waitOk,              \* wait_for_url completed before its timeout
    collected,           \* context.cookies() returned a list ([set, list])
    inspectFailed,       \* a guarded page inspection (title, error texts) raised
    site,                \* operation whose fault reached naver_login's handler
    logged,              \* texts interpolated into the log records of the last step
    \* ---- concurrent attempts (specification ConcSpec) ----
    att,                 \* per attempt: position and locals of its naver_login
    remote,              \* resources of the remote side, by handle: [kind, by, jar]
    uses                 \* uses of a handle by an attempt: [by, id, op]

\* Variables of the single attempt.
seqVars == <<pc, BROWSERLESS_WS_URL, username, password, c_playwright,
          connection_options, optIdx, last_error, c_browser, playwright,
          browser, contextBound, randomBound, charIdx, selIdx, button,
          login_clicked, current_url, cookie_dict, exc, resp, outcome, http,
          acquired, released, releaseOrder, releaseFailed, opened, focus, keys,
          submits,
          pageUrl, ctxCookies, waitOk, collected, inspectFailed, site,
          logged>>

vars == <<seqVars, att, remote, uses>>

\* Variables of connect_to_browserless.
connVars == <<c_playwright, connection_options, optIdx, last_error, c_browser>>
\* Variables of the form-driving part of naver_login.
formVars == <<randomBound, charIdx, selIdx, button, login_clicked, focus,
              keys, submits>>
\* Variables of the classification part of naver_login.
classVars == <<current_url, cookie_dict, pageUrl, ctxCookies, waitOk, collected,
               inspectFailed>>
\* Variables of the resource bookkeeping.
resVars == <<playwright, browser, contextBound, acquired, released,
             releaseOrder, releaseFailed, opened>>
\* Arguments and configuration.
inVars == <<BROWSERLESS_WS_URL, username, password>>
\* Variables of the concurrent attempts.
concVars == <<att, remote, uses>>

(***************************************************************************)
(* Bounds                                                                  *)
(***************************************************************************)
\* Longest username.
MaxUserLen == 1
\* Longest password.
MaxPassLen == 2
\* Longest cookie list of a browsing context.
MaxCookies == 2

Chars == {"a", "b"}

\* Characters of passwords: apart from those of usernames, so that a text
\* shows where its characters came from.
SecretChars == {"x", "y"}

RECURSIVE SeqsUpTo(_, _)
SeqsUpTo(S, n) ==
    IF n = 0 THEN {<<>>}
    ELSE LET shorter == SeqsUpTo(S, n - 1)
         IN  shorter \cup {Append(s, x) : s \in shorter, x \in S}

Range(s) == {s[i] : i \in DOMAIN s}

(***************************************************************************)
(* Text helpers                                                            *)
(***************************************************************************)
\* `needle in text`
Contains(text, needle) == needle \in Range(text)

\* str.replace(old, new): every occurrence; new is a text (possibly empty)
RECURSIVE Replace(_, _, _)
Replace(text, old, new) ==
    IF text = <<>> THEN <<>>
    ELSE (IF Head(text) = old THEN new ELSE <<Head(text)>>)
         \o Replace(Tail(text), old, new)

\* str.lower() of one token
LowerToken(t) ==
    CASE t = "CAPTCHA" -> "captcha"
      [] t = "NIDLOGIN.LOGIN" -> "nidlogin.login"
      [] OTHER -> t

\* str.lower()
Lower(text) == [i \in DOMAIN text |-> LowerToken(text[i])]

NoExc == [set |-> FALSE, e |-> [type |-> "", msg |-> <<>>]]
NoResp == [set |-> FALSE,
           r |-> [success |-> FALSE, message |-> <<>>,
                  cookies |-> [present |-> FALSE, map |-> <<>>]]]
NoDict == [set |-> FALSE, map |-> <<>>]
NoList == [set |-> FALSE, list |-> <<>>]

\* str(e)
Str(e) == e.msg

Raised(e) == [set |-> TRUE, e |-> e]

(***************************************************************************)
(* The remote side's faults                                                *)
(***************************************************************************)
\* What a Playwright call may raise: the target went away, or (for a call
\* that waits) the wait timed out; a timeout's text names what was awaited.
Faults(op) ==
    {[type |-> "Error", msg |-> <<"Target closed">>],
     [type |-> "TimeoutError", msg |-> <<"Timeout exceeded waiting for ", op>>]}

Resources == {"playwright", "browser", "context"}

Fields == {"#id", "#pw"}

(***************************************************************************)
(* Inputs                                                                  *)
(***************************************************************************)
\* Values of the environment variable: unset, empty, a plain endpoint, and
\* a wss endpoint with the /playwright path and the token query.
EnvValues ==
    {[set |-> FALSE, val |-> <<>>],
     [set |-> TRUE, val |-> <<>>],
     [set |-> TRUE, val |-> <<"ws://", "host">>],
     [set |-> TRUE, val |-> <<"wss://", "host", "/playwright", "?token=", "T">>]}

Usernames == SeqsUpTo(Chars, MaxUserLen)
Passwords == SeqsUpTo(SecretChars, MaxPassLen)

\* `not browserless_url`
Missing(v) == ~v.set \/ v.val = <<>>

Configured == ~Missing(BROWSERLESS_WS_URL)

Init ==
    /\ pc = "login_endpoint"
    /\ BROWSERLESS_WS_URL \in EnvValues
    /\ username \in Usernames
    /\ password \in Passwords
    /\ c_playwright = FALSE
    /\ connection_options = <<>>
    /\ optIdx = 0
    /\ last_error = NoExc
    /\ c_browser = 0
    /\ playwright = FALSE
    /\ browser = 0
    /\ contextBound = FALSE
    /\ randomBound = FALSE
    /\ charIdx = 0
    /\ selIdx = 0
    /\ button = [found |-> FALSE, is_visible |-> FALSE, is_enabled |-> FALSE]
    /\ login_clicked = FALSE
    /\ current_url = <<>>
    /\ cookie_dict = NoDict
    /\ exc = NoExc
    /\ resp = NoResp
    /\ outcome = "none"
    /\ http = 0
    /\ acquired = [r \in Resources |-> 0]
    /\ released = [r \in Resources |-> 0]
    /\ releaseOrder = <<>>
    /\ releaseFailed = FALSE
    /\ opened = {}
    /\ focus = "none"
    /\ keys = [f \in Fields |-> <<>>]
    /\ submits = <<>>
    /\ pageUrl = <<"about:blank">>
    /\ ctxCookies = <<>>
    /\ waitOk = FALSE
    /\ collected = NoList
    /\ inspectFailed = FALSE
    /\ site = ""
    /\ logged = <<>>
    /\ att = <<>>
    /\ remote = <<>>
    /\ uses = {}

(***************************************************************************)
(* Control transfer                                                        *)
(***************************************************************************)
\* An exception raised by operation op inside naver_login's try block, and
\* caught nowhere before its `except Exception` (line 368).
Throw(e, op) ==
    /\ exc' = Raised(e)
    /\ site' = op
    /\ pc' = "login_except"

\* Control moves on, no exception.
Goto(next) ==
    /\ pc' = next
    /\ UNCHANGED <<exc, site>>

\* A call of the remote side that changes nothing the model records: it
\* returns, or raises into naver_login's handler.
Call(op, here, next) ==
    /\ pc = here
    /\ \/ Goto(next)
       \/ \E e \in Faults(op) : Throw(e, op)

\* A key that is a character (not Tab, Delete, Control+A, Enter).
IsChar(k) == k \in Chars \cup SecretChars

\* lines 173 and 204: page.input_value(f), the content of a field: the
\* characters dispatched into it, control keys left out.
Typed(f) == SelectSeq(keys[f], IsChar)

Acquire(r) == acquired' = [acquired EXCEPT ![r] = @ + 1]

\* logger.info/warning/error: the step writes records; `texts` are the
\* values their f-strings interpolate from the arguments, the configuration,
\* the form and the exception in flight.  The literal parts of a record, and
\* texts that come from the remote side alone (page title, page error text,
\* button text, the text of a swallowed fault), are left out.
Log(texts) == logged' = texts

\* stop()/close() of resource r is invoked; it returns or raises
Release(r) ==
    /\ released' = [released EXCEPT ![r] = @ + 1]
    /\ releaseOrder' = Append(releaseOrder, r)
    /\ releaseFailed' \in BOOLEAN

(***************************************************************************)
(* login_endpoint (entry)                                                  *)
(***************************************************************************)
LoginEndpointCall ==
    /\ pc = "login_endpoint"
    /\ Goto("getenv")
    /\ Log(<<>>)
    /\ UNCHANGED <<inVars, concVars, connVars, formVars, classVars, resVars, resp,
                   outcome, http>>

(***************************************************************************)
(* connect_to_browserless                                                  *)
(***************************************************************************)
ValueErrorUnset ==
    [type |-> "ValueError", msg |-> <<"BROWSERLESS_WS_URL is not set">>]

\* lines 25-27: the configuration check
Getenv ==
    /\ pc = "getenv"
    /\ IF Missing(BROWSERLESS_WS_URL)
       THEN /\ exc' = Raised(ValueErrorUnset)
            /\ pc' = "login_except"
            /\ UNCHANGED site
       ELSE Goto("start_playwright")
    /\ Log(<<>>)
    /\ UNCHANGED <<inVars, concVars, connVars, formVars, classVars, resVars, resp,
                   outcome, http>>

\* line 29: async_playwright().start(), outside connect's try
StartPlaywright ==
    /\ pc = "start_playwright"
    /\ \/ /\ Goto("build_options")
          /\ c_playwright' = TRUE
          /\ Acquire("playwright")
       \/ /\ \E e \in Faults("async_playwright") : Throw(e, "async_playwright")
          /\ UNCHANGED <<c_playwright, acquired>>
    /\ Log(<<>>)
    /\ UNCHANGED <<inVars, concVars, connection_options, optIdx, last_error, c_browser,
                   formVars, classVars, playwright, browser, contextBound,
                   released, releaseOrder, releaseFailed, opened, resp, outcome, http>>

\* lines 35-50: the candidate list
ConnectionOptions(browserless_url) ==
    IF browserless_url # <<>> /\ Head(browserless_url) = "wss://"
    THEN LET http_url ==
                 Replace(Replace(browserless_url, "wss://", <<"https://">>),
                         "/playwright", <<>>)
         IN  << browserless_url,
                http_url \o <<"/json/version">>,
                Replace(browserless_url, "/playwright", <<"/chromium">>),
                Replace(browserless_url, "?token=", <<"/websocket", "?token=">>) >>
    ELSE << browserless_url >>

BuildOptions ==
    /\ pc = "build_options"
    /\ connection_options' = ConnectionOptions(BROWSERLESS_WS_URL.val)
    /\ optIdx' = 1
    /\ last_error' = NoExc
    /\ Goto("connect_loop")
    /\ Log(<<BROWSERLESS_WS_URL.val>>)
    /\ UNCHANGED <<inVars, concVars, c_playwright, c_browser, formVars, classVars,
                   resVars, resp, outcome, http>>

\* lines 53-58 and 73-75: the next candidate, or the end of the list
ConnectOverCdp ==
    /\ pc = "connect_loop"
    /\ IF optIdx > Len(connection_options)
       THEN /\ Goto("all_failed")
            /\ Log(<<>>)
            /\ UNCHANGED <<last_error, c_browser, acquired, opened>>
       ELSE \/ /\ Goto("probe_new_page")
               /\ c_browser' = Cardinality(opened) + 1
               /\ opened' = opened \cup {Cardinality(opened) + 1}
               /\ Acquire("browser")
               /\ UNCHANGED last_error
               /\ Log(<<connection_options[optIdx]>>)
            \/ /\ \E e \in Faults("connect_over_cdp") :
                      /\ last_error' = Raised(e)
                      /\ Log(<<connection_options[optIdx],
                               connection_options[optIdx] \o Str(e)>>)
               /\ Goto("candidate_failed")
               /\ UNCHANGED <<c_browser, acquired, opened>>
    /\ UNCHANGED <<inVars, concVars, c_playwright, connection_options, optIdx, formVars,
                   classVars, playwright, browser, contextBound, released,
                   releaseOrder, releaseFailed, resp, outcome, http>>

\* lines 66 and 71: return playwright, browser (into naver_login, line 97)
\* connect_to_browserless is left: its locals are gone
ConnectLeave ==
    /\ c_playwright' = FALSE
    /\ connection_options' = <<>>
    /\ optIdx' = 0
    /\ last_error' = NoExc
    /\ c_browser' = 0

ConnectReturn ==
    /\ playwright' = c_playwright
    /\ browser' = c_browser
    /\ ConnectLeave
    /\ Goto("new_context")

\* ProbeNewPage whose failure counts as a failure of the candidate: the
\* handle is dropped and the next candidate is tried.
ProbeNewPageStrict ==
    /\ pc = "probe_new_page"
    /\ \/ /\ Goto("probe_page_close")
          /\ UNCHANGED <<playwright, browser, connVars>>
          /\ Log(<<>>)
       \/ /\ \E e \in Faults("new_page") : last_error' = Raised(e)
          /\ Goto("candidate_failed")
          /\ UNCHANGED <<playwright, browser, c_playwright, connection_options,
                         optIdx, c_browser>>
          /\ Log(<<>>)
    /\ UNCHANGED <<inVars, concVars, formVars, classVars, contextBound,
                   acquired, released, releaseOrder, releaseFailed, opened, resp, outcome,
                   http>>

\* line 63: the liveness probe opens a page; its failure is caught (67-71)
ProbeNewPage ==
    /\ pc = "probe_new_page"
    /\ \/ /\ Goto("probe_page_close")
          /\ UNCHANGED <<playwright, browser, connVars>>
          /\ Log(<<>>)
       \/ /\ ConnectReturn
          /\ Log(<<connection_options[optIdx]>>)
    /\ UNCHANGED <<inVars, concVars, formVars, classVars, contextBound,
                   acquired, released, releaseOrder, releaseFailed, opened, resp, outcome,
                   http>>

\* line 64: the probe closes its page; success and failure both return
ProbePageClose ==
    /\ pc = "probe_page_close"
    /\ ConnectReturn
    /\ Log(<<connection_options[optIdx]>>)
    /\ UNCHANGED <<inVars, concVars, formVars, classVars, contextBound,
                   acquired, released, releaseOrder, releaseFailed, opened, resp, outcome,
                   http>>

\* lines 76-81: clean up a browser reference of this call, then continue
CandidateFailed ==
    /\ pc = "candidate_failed"
    /\ IF c_browser # 0
       THEN Release("browser")
       ELSE UNCHANGED <<released, releaseOrder, releaseFailed>>
    /\ optIdx' = optIdx + 1
    /\ Goto("connect_loop")
    /\ Log(<<>>)
    /\ UNCHANGED <<inVars, concVars, c_playwright, connection_options, last_error,
                   c_browser, formVars, classVars, playwright, browser,
                   contextBound, acquired, opened, resp, outcome, http>>

AllFailedError ==
    [type |-> "Exception", msg |-> <<"all connection attempts failed">>]

\* line 84: raise last_error or Exception(...), caught at line 86
AllFailed ==
    /\ pc = "all_failed"
    /\ exc' = (IF last_error.set THEN last_error ELSE Raised(AllFailedError))
    /\ pc' = "connect_except"
    /\ site' = "connect_over_cdp"
    /\ Log(<<>>)
    /\ UNCHANGED <<inVars, concVars, connVars, formVars, classVars, resVars, resp,
                   outcome, http>>

\* ConnectExcept without the stop(): the control channel leaks.
ConnectExceptNoStop ==
    /\ pc = "connect_except"
    /\ pc' = "login_except"
    /\ ConnectLeave
    /\ Log(<<Str(exc.e)>>)
    /\ UNCHANGED <<inVars, concVars, formVars, classVars, resVars, exc, resp, outcome,
                   http, site>>

\* lines 86-89: stop the control channel, then re-raise; a failing stop()
\* raises its own error instead
ConnectExcept ==
    /\ pc = "connect_except"
    /\ released' = [released EXCEPT !["playwright"] = @ + 1]
    /\ releaseOrder' = Append(releaseOrder, "playwright")
    /\ \/ /\ UNCHANGED exc
          /\ releaseFailed' = FALSE
       \/ /\ \E e \in Faults("playwright.stop") : exc' = Raised(e)
          /\ releaseFailed' = TRUE
    /\ pc' = "login_except"
    /\ ConnectLeave
    /\ Log(<<Str(exc.e)>>)
    /\ UNCHANGED <<inVars, concVars, formVars, classVars, playwright, browser,
                   contextBound, acquired, opened, resp, outcome, http, site>>

(***************************************************************************)
(* naver_login: session set-up and navigation                              *)
(***************************************************************************)
\* lines 100-119: browser.new_context(...)
NewContext ==
    /\ pc = "new_context"
    /\ \/ /\ Goto("new_page")
          /\ contextBound' = TRUE
          /\ Acquire("context")
       \/ /\ \E e \in Faults("new_context") : Throw(e, "new_context")
          /\ UNCHANGED <<contextBound, acquired>>
    /\ Log(<<>>)
    /\ UNCHANGED <<inVars, concVars, connVars, formVars, classVars, playwright, browser,
                   released, releaseOrder, releaseFailed, opened, resp, outcome, http>>

\* line 120: context.new_page()
NewPage ==
    /\ Call("new_page", "new_page", "goto_main")
    /\ Log(<<>>)
    /\ UNCHANGED <<inVars, concVars, connVars, formVars, classVars, resVars, resp,
                   outcome, http>>

MainUrl == <<"https://", "www.naver.com">>
LoginUrl == <<"https://", "nid.naver.com", "/", "nidlogin.login">>

\* lines 125-126: page.goto("https://www.naver.com")
GotoMain ==
    /\ pc = "goto_main"
    /\ \/ /\ Goto("goto_login")
          /\ pageUrl' = MainUrl \o <<"/">>
       \/ /\ \E e \in Faults("goto www.naver.com") : Throw(e, "goto_main")
          /\ UNCHANGED pageUrl
    /\ Log(<<>>)
    /\ UNCHANGED <<inVars, concVars, connVars, formVars, current_url, cookie_dict,
                   ctxCookies, waitOk, collected, inspectFailed, resVars, resp, outcome, http>>

\* lines 129-132: page.goto("https://nid.naver.com/nidlogin.login")
GotoLogin ==
    /\ pc = "goto_login"
    /\ \/ /\ Goto("wait_form")
          /\ pageUrl' = LoginUrl
       \/ /\ \E e \in Faults("goto nidlogin.login") : Throw(e, "goto_login")
          /\ UNCHANGED pageUrl
    /\ Log(<<>>)
    /\ UNCHANGED <<inVars, concVars, connVars, formVars, current_url, cookie_dict,
                   ctxCookies, waitOk, collected, inspectFailed, resVars, resp, outcome, http>>

(***************************************************************************)
(* naver_login: the identity field                                         *)
(***************************************************************************)
\* line 140: page.wait_for_selector("#frmNIDLogin", timeout=10000)
WaitForm ==
    /\ Call("#frmNIDLogin", "wait_form", "wait_id")
    /\ Log(<<>>)
    /\ UNCHANGED <<inVars, concVars, connVars, formVars, classVars, resVars, resp,
                   outcome, http>>

\* line 144: page.wait_for_selector("#id", timeout=5000)
WaitId ==
    /\ Call("#id", "wait_id", "mouse_id")
    /\ Log(<<>>)
    /\ UNCHANGED <<inVars, concVars, connVars, formVars, classVars, resVars, resp,
                   outcome, http>>

\* lines 147-150: page.mouse.move(...) twice
MouseMoveId ==
    /\ Call("mouse.move", "mouse_id", "focus_id")
    /\ Log(<<>>)
    /\ UNCHANGED <<inVars, concVars, connVars, formVars, classVars, resVars, resp,
                   outcome, http>>

\* page.focus(selector): the element takes the keyboard focus
Focus(selector, here, next) ==
    /\ pc = here
    /\ \/ /\ Goto(next)
          /\ focus' = selector
       \/ /\ \E e \in Faults(selector) : Throw(e, selector)
          /\ UNCHANGED focus
    /\ Log(<<>>)
    /\ UNCHANGED <<inVars, concVars, connVars, randomBound, charIdx, selIdx, button,
                   login_clicked, keys, submits, classVars, resVars, resp,
                   outcome, http>>

\* The keystroke goes to the element holding the focus.
Dispatch(key) ==
    IF focus \in Fields
    THEN keys' = [keys EXCEPT ![focus] = Append(@, key)]
    ELSE UNCHANGED keys

\* page.keyboard.press(key)
Press(key, here, next) ==
    /\ pc = here
    /\ \/ /\ Goto(next)
          /\ Dispatch(key)
       \/ /\ \E e \in Faults("keyboard.press") : Throw(e, "keyboard.press")
          /\ UNCHANGED keys
    /\ Log(<<>>)
    /\ UNCHANGED <<inVars, concVars, connVars, randomBound, selIdx, button,
                   login_clicked, focus, submits, classVars, resVars, resp,
                   outcome, http>>

\* line 153
FocusId == Focus("#id", "focus_id", "id_select_all")

\* line 157
IdSelectAll ==
    /\ Press("Control+A", "id_select_all", "id_delete")
    /\ UNCHANGED charIdx

\* IdDelete after which the typing loop is skipped: the identity is not
\* driven before the secret field is resolved.
IdDeleteSkipTyping ==
    /\ Press("Delete", "id_delete", "type_username")
    /\ charIdx' = Len(username) + 1

\* lines 158-159; the typing loop starts at the first character
IdDelete ==
    /\ Press("Delete", "id_delete", "type_username")
    /\ charIdx' = 1

\* lines 162-167: one iteration of the loop over username, or its end
TypeUsername ==
    /\ pc = "type_username"
    /\ IF charIdx > Len(username)
       THEN /\ Goto("input_value_id")
            /\ UNCHANGED <<keys, randomBound, charIdx>>
       ELSE \/ /\ Dispatch(username[charIdx])
               /\ randomBound' = TRUE
               /\ charIdx' = charIdx + 1
               /\ Goto("type_username")
            \/ /\ \E e \in Faults("keyboard.type") : Throw(e, "keyboard.type")
               /\ UNCHANGED <<keys, randomBound, charIdx>>
    /\ Log(<<>>)
    /\ UNCHANGED <<inVars, concVars, connVars, selIdx, button, login_clicked, focus,
                   submits, classVars, resVars, resp, outcome, http>>

\* lines 170-174: page.input_value("#id")
InputValueId ==
    /\ pc = "input_value_id"
    /\ \/ /\ Goto("mouse_pw")
          /\ LET id_value == Typed("#id")
             IN  Log(<<id_value, <<ToString(Len(id_value))>>>>)
       \/ /\ \E e \in Faults("input_value #id") : Throw(e, "input_value #id")
          /\ Log(<<>>)
    /\ UNCHANGED <<inVars, concVars, connVars, formVars, classVars, resVars, resp,
                   outcome, http>>

(***************************************************************************)
(* naver_login: the secret field                                           *)
(***************************************************************************)
\* lines 180-181
MouseMovePw ==
    /\ Call("mouse.move", "mouse_pw", "press_tab")
    /\ Log(<<>>)
    /\ UNCHANGED <<inVars, concVars, connVars, formVars, classVars, resVars, resp,
                   outcome, http>>

\* lines 184-185: Tab goes to the focused element, and moves the focus on
PressTab ==
    /\ pc = "press_tab"
    /\ \/ /\ Goto("focus_pw")
          /\ Dispatch("Tab")
          /\ focus' \in {"#pw", "other"}
       \/ /\ \E e \in Faults("keyboard.press") : Throw(e, "keyboard.press")
          /\ UNCHANGED <<keys, focus>>
    /\ Log(<<>>)
    /\ UNCHANGED <<inVars, concVars, connVars, randomBound, charIdx, selIdx, button,
                   login_clicked, submits, classVars, resVars, resp, outcome,
                   http>>

\* FocusPw whose failure is swallowed: the attempt goes on without the field.
FocusPwSwallow ==
    /\ pc = "focus_pw"
    /\ pc' = "pw_select_all"
    /\ \/ /\ focus' = "#pw"
          /\ UNCHANGED site
       \/ /\ site' = "#pw"
          /\ UNCHANGED focus
    /\ Log(<<>>)
    /\ UNCHANGED <<inVars, concVars, connVars, randomBound, charIdx, selIdx, button,
                   login_clicked, keys, submits, classVars, resVars, exc,
                   resp, outcome, http>>

\* line 188
FocusPw == Focus("#pw", "focus_pw", "pw_select_all")

\* line 192
PwSelectAll ==
    /\ Press("Control+A", "pw_select_all", "pw_delete")
    /\ UNCHANGED charIdx

\* lines 193-194
PwDelete ==
    /\ Press("Delete", "pw_delete", "type_password")
    /\ charIdx' = 1

UnboundLocalRandom ==
    [type |-> "UnboundLocalError",
     msg |-> <<"cannot access local variable 'random'">>]

\* lines 197-201: one iteration of the loop over password, or its end.
\* `import random` (line 165) is a statement of the username loop's body, so
\* `random` is a local of naver_login that is bound only once that body ran.
TypePassword ==
    /\ pc = "type_password"
    /\ IF charIdx > Len(password)
       THEN /\ Goto("input_value_pw")
            /\ UNCHANGED <<keys, charIdx>>
       ELSE \/ /\ Dispatch(password[charIdx])
               /\ IF randomBound
                  THEN /\ charIdx' = charIdx + 1
                       /\ Goto("type_password")
                  ELSE /\ exc' = Raised(UnboundLocalRandom)
                       /\ pc' = "login_except"
                       /\ UNCHANGED <<charIdx, site>>
            \/ /\ \E e \in Faults("keyboard.type") : Throw(e, "keyboard.type")
               /\ UNCHANGED <<keys, charIdx>>
    /\ Log(<<>>)
    /\ UNCHANGED <<inVars, concVars, connVars, randomBound, selIdx, button,
                   login_clicked, focus, submits, classVars, resVars, resp,
                   outcome, http>>

\* InputValuePw logging the value read back, as line 174 does for the id.
InputValuePwLogsValue ==
    /\ pc = "input_value_pw"
    /\ \/ /\ Goto("query_selector")
          /\ selIdx' = 1
          /\ LET pw_value == Typed("#pw")
             IN  Log(<<pw_value, <<ToString(Len(pw_value))>>>>)
       \/ /\ \E e \in Faults("input_value #pw") : Throw(e, "input_value #pw")
          /\ UNCHANGED selIdx
          /\ Log(<<>>)
    /\ UNCHANGED <<inVars, concVars, connVars, randomBound, charIdx, button,
                   login_clicked, focus, keys, submits, classVars, resVars,
                   resp, outcome, http>>

\* lines 204-208: page.input_value("#pw"); the button loop starts
InputValuePw ==
    /\ pc = "input_value_pw"
    /\ \/ /\ Goto("query_selector")
          /\ selIdx' = 1
          /\ LET pw_value == Typed("#pw")
             IN  Log(<<<<ToString(Len(pw_value))>>>>)
       \/ /\ \E e \in Faults("input_value #pw") : Throw(e, "input_value #pw")
          /\ UNCHANGED selIdx
          /\ Log(<<>>)
    /\ UNCHANGED <<inVars, concVars, connVars, randomBound, charIdx, button,
                   login_clicked, focus, keys, submits, classVars, resVars,
                   resp, outcome, http>>

(***************************************************************************)
(* The remote login page                                                   *)
(***************************************************************************)
\* The location wait_for_url waits for (line 268).
CanonicalUrl == MainUrl \o <<"/">>

\* Locations the page may be at after a submit.
PostUrls ==
    {CanonicalUrl,
     LoginUrl,
     LoginUrl \o <<"?mode=", "verify">>,
     <<"https://", "nid.naver.com", "/", "NIDLOGIN.LOGIN">>,
     <<"https://", "nid.naver.com", "/", "user2", "/", "help">>,
     <<"https://", "mail.naver.com", "/">>,
     <<"https://", "mail.naver.com", "/", "?url=", "nid.naver.com">>,
     <<"https://", "mail.naver.com", "/", "CAPTCHA">>}

\* Cookies a browsing context may hold.
Cookies ==
    {[name |-> "NID_AUT", value |-> "1"],
     [name |-> "lang", value |-> "1"],
     [name |-> "lang", value |-> "2"]}

CookieLists == SeqsUpTo(Cookies, MaxCookies)

\* The remote side's reaction to a submit: the page moves, cookies are set.
Submitted ==
    /\ pageUrl' \in PostUrls
    /\ ctxCookies' \in CookieLists

(***************************************************************************)
(* naver_login: submit                                                     *)
(***************************************************************************)
\* lines 214-221
login_button_selectors ==
    << "#log\\.login", "button#log\\.login", ".btn_login.off.next_step",
       "#frmNIDLogin .btn_login", "button:has-text", "[id='log.login']" >>

NoButton == [found |-> FALSE, is_visible |-> FALSE, is_enabled |-> FALSE]

\* The button loop is left: its variables are dead.
LeaveLoop ==
    /\ selIdx' = 0
    /\ button' = NoButton

\* lines 245-247: the candidate is given up, the loop continues
NextSelector ==
    /\ selIdx' = selIdx + 1
    /\ button' = NoButton
    /\ Goto("query_selector")

\* lines 224-228: page.query_selector(selector): None, an element, or an error
QuerySelector ==
    /\ pc = "query_selector"
    /\ IF selIdx > Len(login_button_selectors)
       THEN /\ Goto("enter_fallback")
            /\ LeaveLoop
       ELSE \/ NextSelector
            \/ /\ button' = [NoButton EXCEPT !.found = TRUE]
               /\ Goto("is_visible")
               /\ UNCHANGED selIdx
    /\ Log(<<>>)
    /\ UNCHANGED <<inVars, concVars, connVars, randomBound, charIdx, login_clicked,
                   focus, keys, submits, classVars, resVars, resp, outcome,
                   http>>

\* line 230: button.is_visible(): a boolean, or an error
IsVisible ==
    /\ pc = "is_visible"
    /\ \/ NextSelector
       \/ /\ \E v \in BOOLEAN : button' = [button EXCEPT !.is_visible = v]
          /\ Goto("is_enabled")
          /\ UNCHANGED selIdx
    /\ Log(<<>>)
    /\ UNCHANGED <<inVars, concVars, connVars, randomBound, charIdx, login_clicked,
                   focus, keys, submits, classVars, resVars, resp, outcome,
                   http>>

\* line 231: button.is_enabled(): a boolean, or an error
IsEnabled ==
    /\ pc = "is_enabled"
    /\ \/ NextSelector
       \/ /\ \E v \in BOOLEAN : button' = [button EXCEPT !.is_enabled = v]
          /\ Goto("inner_text")
          /\ UNCHANGED selIdx
    /\ Log(<<>>)
    /\ UNCHANGED <<inVars, concVars, connVars, randomBound, charIdx, login_clicked,
                   focus, keys, submits, classVars, resVars, resp, outcome,
                   http>>

\* InnerText followed by a click only on a button that is visible and
\* enabled: a disabled candidate counts as a non-match.
InnerTextEnabledOnly ==
    /\ pc = "inner_text"
    /\ IF button.is_visible /\ button.is_enabled
       THEN /\ Goto("click")
            /\ UNCHANGED <<selIdx, button>>
       ELSE NextSelector
    /\ Log(<<>>)
    /\ UNCHANGED <<inVars, concVars, connVars, randomBound, charIdx, login_clicked,
                   focus, keys, submits, classVars, resVars, resp, outcome,
                   http>>

\* lines 234-240: inner_text() is guarded; then `if is_visible`
InnerText ==
    /\ pc = "inner_text"
    /\ IF button.is_visible
       THEN /\ Goto("click")
            /\ UNCHANGED <<selIdx, button>>
       ELSE NextSelector
    /\ Log(<<>>)
    /\ UNCHANGED <<inVars, concVars, connVars, randomBound, charIdx, login_clicked,
                   focus, keys, submits, classVars, resVars, resp, outcome,
                   http>>

\* lines 241-244: button.click(): success breaks the loop
Click ==
    /\ pc = "click"
    /\ \/ /\ login_clicked' = TRUE
          /\ submits' = Append(submits, "click")
          /\ Submitted
          /\ Goto("check_clicked")
          /\ LeaveLoop
       \/ /\ NextSelector
          /\ UNCHANGED <<login_clicked, submits, pageUrl, ctxCookies>>
    /\ Log(<<>>)
    /\ UNCHANGED <<inVars, concVars, connVars, randomBound, charIdx, focus, keys,
                   current_url, cookie_dict, waitOk, collected, inspectFailed,
                   resVars, resp,
                   outcome, http>>

\* lines 249-257: no candidate was clicked: page.press("#pw", "Enter")
EnterFallback ==
    /\ pc = "enter_fallback"
    /\ \/ /\ login_clicked' = TRUE
          /\ submits' = Append(submits, "Enter")
          /\ keys' = [keys EXCEPT !["#pw"] = Append(@, "Enter")]
          /\ Submitted
       \/ UNCHANGED <<login_clicked, submits, keys, pageUrl, ctxCookies>>
    /\ Goto("check_clicked")
    /\ Log(<<>>)
    /\ UNCHANGED <<inVars, concVars, connVars, randomBound, charIdx, selIdx, button,
                   focus, current_url, cookie_dict, waitOk, collected,
                   inspectFailed, resVars, resp, outcome, http>>

\* LoginResponse(success=..., message=..., cookies=...)
LoginResponse(success, message, cookies) ==
    [set |-> TRUE,
     r |-> [success |-> success, message |-> message, cookies |-> cookies]]

\* cookies=None, the default of the field (line 21)
None == [present |-> FALSE, map |-> <<>>]

\* A `return` inside the try block: the finally clause runs next.
Return(r) ==
    /\ resp' = r
    /\ Goto("finally_context")

MsgButtonNotFound == <<"login button not found">>

\* lines 259-263
CheckClicked ==
    /\ pc = "check_clicked"
    /\ IF ~login_clicked
       THEN Return(LoginResponse(FALSE, MsgButtonNotFound, None))
       ELSE /\ Goto("wait_for_url")
            /\ UNCHANGED resp
    /\ Log(<<>>)
    /\ UNCHANGED <<inVars, concVars, connVars, formVars, classVars, resVars, outcome,
                   http>>

(***************************************************************************)
(* naver_login: classification of the post-submit state                    *)
(***************************************************************************)
\* line 268: page.wait_for_url("https://www.naver.com/", timeout=15000); it
\* completes only at that location; its error is caught at line 282
WaitForUrl ==
    /\ pc = "wait_for_url"
    /\ \/ /\ pageUrl = CanonicalUrl
          /\ waitOk' = TRUE
          /\ Goto("cookies_redirect")
       \/ /\ Goto("read_url")
          /\ UNCHANGED waitOk
    /\ Log(<<>>)
    /\ UNCHANGED <<inVars, concVars, connVars, formVars, current_url, cookie_dict,
                   pageUrl, ctxCookies, collected, inspectFailed, resVars, resp, outcome,
                   http>>

\* CookieDict that keeps the first value of a name instead of the last.
CookieDictFirstWins(cookies) ==
    [n \in {cookies[i].name : i \in DOMAIN cookies} |->
        LET first == CHOOSE i \in DOMAIN cookies :
                         /\ cookies[i].name = n
                         /\ \A j \in DOMAIN cookies :
                                cookies[j].name = n => i <= j
        IN  cookies[first].value]

\* {cookie['name']: cookie['value'] for cookie in cookies}
CookieDict(cookies) ==
    [n \in {cookies[i].name : i \in DOMAIN cookies} |->
        LET last == CHOOSE i \in DOMAIN cookies :
                        /\ cookies[i].name = n
                        /\ \A j \in DOMAIN cookies :
                               cookies[j].name = n => j <= i
        IN  cookies[last].value]

\* cookies=cookie_dict
Some(map) == [present |-> TRUE, map |-> map]

MsgLoginSuccess == <<"login success">>

\* CookiesRedirect that forgets to pass the cookies on.
CookiesRedirectNoCookies ==
    /\ pc = "cookies_redirect"
    /\ \/ /\ collected' = [set |-> TRUE, list |-> ctxCookies]
          /\ cookie_dict' = [set |-> TRUE, map |-> CookieDict(ctxCookies)]
          /\ Return(LoginResponse(TRUE, MsgLoginSuccess, None))
       \/ /\ \E e \in Faults("context.cookies") : Throw(e, "context.cookies")
          /\ UNCHANGED <<collected, cookie_dict, resp>>
    /\ Log(<<>>)
    /\ UNCHANGED <<inVars, concVars, connVars, formVars, current_url, pageUrl,
                   ctxCookies, waitOk, inspectFailed, resVars, outcome, http>>

\* lines 271-280: context.cookies(), then the success response
CookiesRedirect ==
    /\ pc = "cookies_redirect"
    /\ \/ /\ collected' = [set |-> TRUE, list |-> ctxCookies]
          /\ cookie_dict' = [set |-> TRUE, map |-> CookieDict(ctxCookies)]
          /\ Return(LoginResponse(TRUE, MsgLoginSuccess,
                                  Some(CookieDict(ctxCookies))))
       \/ /\ \E e \in Faults("context.cookies") : Throw(e, "context.cookies")
          /\ UNCHANGED <<collected, cookie_dict, resp>>
    /\ Log(<<>>)
    /\ UNCHANGED <<inVars, concVars, connVars, formVars, current_url, pageUrl,
                   ctxCookies, waitOk, inspectFailed, resVars, outcome, http>>

\* lines 284-285: current_url = page.url
ReadUrl ==
    /\ pc = "read_url"
    /\ current_url' = pageUrl
    /\ Goto("page_title")
    /\ Log(<<pageUrl>>)
    /\ UNCHANGED <<inVars, concVars, connVars, formVars, cookie_dict, pageUrl,
                   ctxCookies, waitOk, collected, inspectFailed, resVars, resp, outcome,
                   http>>

\* PageTitle without its try/except: the failure reaches the outer handler.
PageTitleUnguarded ==
    /\ pc = "page_title"
    /\ \/ /\ Goto("error_selectors")
          /\ UNCHANGED inspectFailed
       \/ /\ \E e \in Faults("page.title") : Throw(e, "page.title")
          /\ inspectFailed' = TRUE
    /\ Log(<<>>)
    /\ UNCHANGED <<inVars, concVars, connVars, formVars, current_url, cookie_dict,
                   pageUrl, ctxCookies, waitOk, collected, resVars, resp,
                   outcome, http>>

\* lines 288-292: page.title(), guarded: success and failure both go on
PageTitle ==
    /\ pc = "page_title"
    /\ \/ UNCHANGED inspectFailed
       \/ inspectFailed' = TRUE
    /\ Goto("error_selectors")
    /\ Log(<<>>)
    /\ UNCHANGED <<inVars, concVars, connVars, formVars, current_url, cookie_dict,
                   pageUrl, ctxCookies, waitOk, collected, resVars, resp,
                   outcome, http>>

\* lines 295-327: the error texts are looked up and logged, guarded: success
\* and failure both go on
ErrorSelectors ==
    /\ pc = "error_selectors"
    /\ \/ UNCHANGED inspectFailed
       \/ inspectFailed' = TRUE
    /\ Goto("classify_url")
    /\ Log(<<>>)
    /\ UNCHANGED <<inVars, concVars, connVars, formVars, current_url, cookie_dict,
                   pageUrl, ctxCookies, waitOk, collected, resVars, resp,
                   outcome, http>>

MsgChallenge == <<"captcha or additional verification required">>
MsgLoginFailed == <<"login failed, check the id/password">>
MsgManualVerification == <<"additional verification required, complete it manually">>

\* IsChallenge without the .lower(): a case-sensitive match.
IsChallengeCaseSensitive(url) ==
    Contains(url, "captcha") \/ Contains(url, "verify")

\* line 330
IsChallenge(url) ==
    Contains(Lower(url), "captcha") \/ Contains(Lower(url), "verify")

\* line 335
IsLoginPage(url) == Contains(url, "nidlogin.login")

\* line 341
IsAuthDomain(url) == Contains(url, "nid.naver.com")

\* ClassifyUrl with the domain test ahead of the login-page test.
ClassifyUrlDomainFirst ==
    /\ pc = "classify_url"
    /\ IF IsChallenge(current_url)
       THEN Return(LoginResponse(FALSE, MsgChallenge, None))
       ELSE IF IsAuthDomain(current_url)
       THEN Return(LoginResponse(FALSE, MsgManualVerification, None))
       ELSE IF IsLoginPage(current_url)
       THEN Return(LoginResponse(FALSE, MsgLoginFailed, None))
       ELSE /\ Goto("cookies_fallthrough")
            /\ UNCHANGED resp
    /\ Log(<<current_url>>)
    /\ UNCHANGED <<inVars, concVars, connVars, formVars, classVars, resVars, outcome,
                   http>>

\* lines 330-347: the decision on current_url
ClassifyUrl ==
    /\ pc = "classify_url"
    /\ IF IsChallenge(current_url)
       THEN Return(LoginResponse(FALSE, MsgChallenge, None))
       ELSE IF IsLoginPage(current_url)
       THEN Return(LoginResponse(FALSE, MsgLoginFailed, None))
       ELSE IF IsAuthDomain(current_url)
       THEN Return(LoginResponse(FALSE, MsgManualVerification, None))
       ELSE /\ Goto("cookies_fallthrough")
            /\ UNCHANGED resp
    /\ Log(<<current_url>>)
    /\ UNCHANGED <<inVars, concVars, connVars, formVars, classVars, resVars, outcome,
                   http>>

\* line 353
login_cookies == <<"NID_AUT", "NID_SES", "NID_JKL">>

\* HasLoginCookies that takes any cookie for a login cookie.
HasLoginCookiesAny(dict) == DOMAIN dict # {}

\* line 354
HasLoginCookies(dict) ==
    \E i \in DOMAIN login_cookies : login_cookies[i] \in DOMAIN dict

MsgSuccessAt(url) == <<"login success (current URL: ">> \o url \o <<")">>
MsgUncertain(url) == <<"login state uncertain (current URL: ">> \o url \o <<")">>

\* CookiesFallthrough that hands the cookies it collected to the caller
\* also when no marker is among them.
CookiesFallthroughKeepsCookies ==
    /\ pc = "cookies_fallthrough"
    /\ \/ /\ collected' = [set |-> TRUE, list |-> ctxCookies]
          /\ cookie_dict' = [set |-> TRUE, map |-> CookieDict(ctxCookies)]
          /\ IF HasLoginCookies(CookieDict(ctxCookies))
             THEN Return(LoginResponse(TRUE, MsgSuccessAt(current_url),
                                       Some(CookieDict(ctxCookies))))
             ELSE Return(LoginResponse(FALSE, MsgUncertain(current_url),
                                       Some(CookieDict(ctxCookies))))
       \/ /\ \E e \in Faults("context.cookies") : Throw(e, "context.cookies")
          /\ UNCHANGED <<collected, cookie_dict, resp>>
    /\ Log(<<>>)
    /\ UNCHANGED <<inVars, concVars, connVars, formVars, current_url, pageUrl,
                   ctxCookies, waitOk, inspectFailed, resVars, outcome, http>>

\* lines 349-366: context.cookies(), then the decision on the cookie names
CookiesFallthrough ==
    /\ pc = "cookies_fallthrough"
    /\ \/ /\ collected' = [set |-> TRUE, list |-> ctxCookies]
          /\ cookie_dict' = [set |-> TRUE, map |-> CookieDict(ctxCookies)]
          /\ IF HasLoginCookies(CookieDict(ctxCookies))
             THEN Return(LoginResponse(TRUE, MsgSuccessAt(current_url),
                                       Some(CookieDict(ctxCookies))))
             ELSE Return(LoginResponse(FALSE, MsgUncertain(current_url), None))
       \/ /\ \E e \in Faults("context.cookies") : Throw(e, "context.cookies")
          /\ UNCHANGED <<collected, cookie_dict, resp>>
    /\ Log(<<>>)
    /\ UNCHANGED <<inVars, concVars, connVars, formVars, current_url, pageUrl,
                   ctxCookies, waitOk, inspectFailed, resVars, outcome, http>>

(***************************************************************************)
(* naver_login: the handler, the finally clause, the return                *)
(***************************************************************************)
MsgError(e) == <<"error occurred: ">> \o Str(e)

\* LoginExcept that logs and re-raises instead of returning a response.
LoginExceptReraise ==
    /\ pc = "login_except"
    /\ pc' = "finally_context"
    /\ Log(<<Str(exc.e)>>)
    /\ UNCHANGED <<inVars, concVars, connVars, formVars, classVars, resVars, exc, resp,
                   outcome, http, site>>

\* lines 368-373: except Exception as e
LoginExcept ==
    /\ pc = "login_except"
    /\ resp' = LoginResponse(FALSE, MsgError(exc.e), None)
    /\ exc' = NoExc
    /\ pc' = "finally_context"
    /\ Log(<<Str(exc.e)>>)
    /\ UNCHANGED <<inVars, concVars, connVars, formVars, classVars, resVars, outcome,
                   http, site>>

\* FinallyContext without its try/except: a failing close() leaves the
\* finally clause, and the later releases are not attempted.
FinallyContextUnguarded ==
    /\ pc = "finally_context"
    /\ IF contextBound
       THEN /\ Release("context")
            /\ Goto(IF releaseFailed' THEN "login_return" ELSE "finally_browser")
       ELSE /\ UNCHANGED <<released, releaseOrder, releaseFailed>>
            /\ Goto("finally_browser")
    /\ Log(<<>>)
    /\ UNCHANGED <<inVars, concVars, connVars, formVars, classVars, playwright, browser,
                   contextBound, acquired, opened, resp, outcome, http>>

\* lines 377-381: if 'context' in locals(): context.close(), guarded
FinallyContext ==
    /\ pc = "finally_context"
    /\ IF contextBound
       THEN Release("context")
       ELSE UNCHANGED <<released, releaseOrder, releaseFailed>>
    /\ Goto("finally_browser")
    /\ Log(<<>>)
    /\ UNCHANGED <<inVars, concVars, connVars, formVars, classVars, playwright, browser,
                   contextBound, acquired, opened, resp, outcome, http>>

\* lines 383-387: if browser: browser.close(), guarded
FinallyBrowser ==
    /\ pc = "finally_browser"
    /\ IF browser # 0
       THEN Release("browser")
       ELSE UNCHANGED <<released, releaseOrder, releaseFailed>>
    /\ Goto("finally_playwright")
    /\ Log(<<>>)
    /\ UNCHANGED <<inVars, concVars, connVars, formVars, classVars, playwright, browser,
                   contextBound, acquired, opened, resp, outcome, http>>

\* lines 389-393: if playwright: playwright.stop(), guarded
FinallyPlaywright ==
    /\ pc = "finally_playwright"
    /\ IF playwright
       THEN Release("playwright")
       ELSE UNCHANGED <<released, releaseOrder, releaseFailed>>
    /\ Goto("login_return")
    /\ Log(<<>>)
    /\ UNCHANGED <<inVars, concVars, connVars, formVars, classVars, playwright, browser,
                   contextBound, acquired, opened, resp, outcome, http>>

\* naver_login ends: with the response of its return statement, or with the
\* exception still in flight
LoginReturn ==
    /\ pc = "login_return"
    /\ outcome' = (IF exc.set THEN "raised" ELSE "returned")
    /\ Goto("endpoint_reply")
    /\ Log(<<>>)
    /\ UNCHANGED <<inVars, concVars, connVars, formVars, classVars, resVars, resp, http>>

(***************************************************************************)
(* login_endpoint (reply)                                                  *)
(***************************************************************************)
\* lines 398-403: the result is the body of the reply; an exception is
\* answered with status 500
EndpointReply ==
    /\ pc = "endpoint_reply"
    /\ http' = (IF outcome = "raised" THEN 500 ELSE 200)
    /\ Goto("done")
    /\ Log(IF outcome = "raised" THEN <<Str(exc.e)>> ELSE <<>>)
    /\ UNCHANGED <<inVars, concVars, connVars, formVars, classVars, resVars, resp,
                   outcome>>

Next ==
    \/ LoginEndpointCall
    \/ Getenv
    \/ StartPlaywright
    \/ BuildOptions
    \/ ConnectOverCdp
    \/ ProbeNewPage
    \/ ProbePageClose
    \/ CandidateFailed
    \/ AllFailed
    \/ ConnectExcept
    \/ NewContext
    \/ NewPage
    \/ GotoMain
    \/ GotoLogin
    \/ WaitForm
    \/ WaitId
    \/ MouseMoveId
    \/ FocusId
    \/ IdSelectAll
    \/ IdDelete
    \/ TypeUsername
    \/ InputValueId
    \/ MouseMovePw
    \/ PressTab
    \/ FocusPw
    \/ PwSelectAll
    \/ PwDelete
    \/ TypePassword
    \/ InputValuePw
    \/ QuerySelector
    \/ IsVisible
    \/ IsEnabled
    \/ InnerText
    \/ Click
    \/ EnterFallback
    \/ CheckClicked
    \/ WaitForUrl
    \/ CookiesRedirect
    \/ ReadUrl
    \/ PageTitle
    \/ ErrorSelectors
    \/ ClassifyUrl
    \/ CookiesFallthrough
    \/ LoginExcept
    \/ FinallyContext
    \/ FinallyBrowser
    \/ FinallyPlaywright
    \/ LoginReturn
    \/ EndpointReply

Spec == Init /\ [][Next]_vars

\* The event loop resumes the attempt whenever the awaited call has returned
\* or raised: a step that can be taken is eventually taken.
FairSpec == Spec /\ WF_vars(Next)

TypeOK ==
    /\ pc \in STRING
    /\ outcome \in {"none", "returned", "raised"}
    /\ http \in {0, 200, 500}
    /\ browser \in 0..1
    /\ releaseFailed \in BOOLEAN
    /\ \A r \in Resources : acquired[r] \in Nat /\ released[r] \in Nat

(***************************************************************************)
(* Concurrent attempts.  login_endpoint is a coroutine: the event loop     *)
(* runs one naver_login per inbound request and switches between them at   *)
(* every await.  The module's only globals are `logger` and `app`          *)
(* (lines 10-12); playwright, browser, context and cookies are locals of   *)
(* each call (lines 96-99, 271, 349).  Here an attempt is reduced to its   *)
(* calls on resources; the remote side hands out a fresh handle per        *)
(* start/connect/new_context and keeps one cookie jar per context.         *)
(***************************************************************************)
NumAttempts == 2

Attempts == 1..NumAttempts

\* Locals of one naver_login before its first step (lines 96-99).
Locals == [pc |-> "start", playwright |-> 0, browser |-> 0, context |-> 0,
           cookies |-> NoList]

\* The handle the next start/connect_over_cdp/new_context returns.
NewHandle == Len(remote) + 1

\* The remote side creates a resource for attempt a.
Create(kind, a) ==
    remote' = Append(remote, [kind |-> kind, by |-> a, jar |-> <<>>])

\* Attempt a performs op on the resource behind handle id.
Use(a, id, op) == uses' = uses \cup {[by |-> a, id |-> id, op |-> op]}

\* The call of attempt a raised: control goes through the handler
\* (lines 368-373) to the finally clause.
Fail(a) == att' = [att EXCEPT ![a].pc = "finally_context"]

\* line 29: async_playwright().start()
AttStartPlaywright(a) ==
    /\ att[a].pc = "start"
    /\ \/ /\ Create("playwright", a)
          /\ att' = [att EXCEPT ![a].pc = "connect", ![a].playwright = NewHandle]
       \/ /\ Fail(a)
          /\ UNCHANGED remote
    /\ UNCHANGED <<seqVars, uses>>

\* lines 53-89: a candidate yields a browser handle, or all fail and
\* connect_to_browserless stops its own playwright before raising, so that
\* naver_login's playwright stays None.
AttConnect(a) ==
    /\ att[a].pc = "connect"
    /\ \/ /\ Create("browser", a)
          /\ att' = [att EXCEPT ![a].pc = "new_context", ![a].browser = NewHandle]
          /\ UNCHANGED uses
       \/ /\ Use(a, att[a].playwright, "stop")
          /\ att' = [att EXCEPT ![a].pc = "finally_context", ![a].playwright = 0]
          /\ UNCHANGED remote
    /\ UNCHANGED seqVars

\* lines 100-119: browser.new_context(...)
AttNewContext(a) ==
    /\ att[a].pc = "new_context"
    /\ \/ /\ Use(a, att[a].browser, "new_context")
          /\ Create("context", a)
          /\ att' = [att EXCEPT ![a].pc = "submit", ![a].context = NewHandle]
       \/ /\ Fail(a)
          /\ UNCHANGED <<remote, uses>>
    /\ UNCHANGED seqVars

\* lines 120-268: the page of the attempt's context is driven through the
\* form; the site answers the submit by setting a session cookie in the jar
\* of that context.  The cookie's value names the jar it was set in.
AttSubmit(a) ==
    /\ att[a].pc = "submit"
    /\ \/ /\ Use(a, att[a].context, "new_page")
          /\ remote' = [remote EXCEPT ![att[a].context].jar =
                            <<[name |-> "NID_SES", value |-> att[a].context]>>]
          /\ att' = [att EXCEPT ![a].pc = "cookies"]
       \/ /\ Fail(a)
          /\ UNCHANGED <<remote, uses>>
    /\ UNCHANGED seqVars

\* The context a module-level global would hold: the one most recently
\* opened, whichever attempt opened it.
AttCookiesShared(a) ==
    /\ att[a].pc = "cookies"
    /\ LET ctxs == {i \in DOMAIN remote : remote[i].kind = "context"}
           last == CHOOSE i \in ctxs : \A j \in ctxs : j <= i
       IN  \/ /\ Use(a, last, "cookies")
              /\ att' = [att EXCEPT ![a].pc = "finally_context",
                                    ![a].cookies = [set |-> TRUE,
                                                    list |-> remote[last].jar]]
           \/ /\ Fail(a)
              /\ UNCHANGED uses
    /\ UNCHANGED <<seqVars, remote>>

\* lines 271 and 349: cookies = await context.cookies(), returned in the
\* response (lines 276-280, 357-361)
AttCookies(a) ==
    /\ att[a].pc = "cookies"
    /\ \/ /\ Use(a, att[a].context, "cookies")
          /\ att' = [att EXCEPT ![a].pc = "finally_context",
                                ![a].cookies = [set |-> TRUE,
                                                list |-> remote[att[a].context].jar]]
       \/ /\ Fail(a)
          /\ UNCHANGED uses
    /\ UNCHANGED <<seqVars, remote>>

\* lines 377-381: context.close() if the local is set; a failure is logged
AttFinallyContext(a) ==
    /\ att[a].pc = "finally_context"
    /\ IF att[a].context # 0
          THEN Use(a, att[a].context, "close")
          ELSE UNCHANGED uses
    /\ att' = [att EXCEPT ![a].pc = "finally_browser"]
    /\ UNCHANGED <<seqVars, remote>>

\* lines 383-387: browser.close() if the local is set
AttFinallyBrowser(a) ==
    /\ att[a].pc = "finally_browser"
    /\ IF att[a].browser # 0
          THEN Use(a, att[a].browser, "close")
          ELSE UNCHANGED uses
    /\ att' = [att EXCEPT ![a].pc = "finally_playwright"]
    /\ UNCHANGED <<seqVars, remote>>

\* lines 389-393: playwright.stop() if the local is set; the attempt is over
AttFinallyPlaywright(a) ==
    /\ att[a].pc = "finally_playwright"
    /\ IF att[a].playwright # 0
          THEN Use(a, att[a].playwright, "stop")
          ELSE UNCHANGED uses
    /\ att' = [att EXCEPT ![a].pc = "done"]
    /\ UNCHANGED <<seqVars, remote>>

\* Requests arrive together; each gets its own call of naver_login.
ConcInit ==
    /\ Init
    /\ BROWSERLESS_WS_URL = [set |-> TRUE, val |-> <<"ws://", "host">>]
    /\ username = <<>>
    /\ password = <<>>

\* line 399, once per request: the attempts are created, each with its locals
Accept ==
    /\ att = <<>>
    /\ att' = [a \in Attempts |-> Locals]
    /\ UNCHANGED <<seqVars, remote, uses>>

\* The event loop resumes any attempt whose awaited call has completed.
ConcNext ==
    \/ Accept
    \/ \E a \in DOMAIN att : AttStartPlaywright(a)
    \/ \E a \in DOMAIN att : AttConnect(a)
    \/ \E a \in DOMAIN att : AttNewContext(a)
    \/ \E a \in DOMAIN att : AttSubmit(a)
    \/ \E a \in DOMAIN att : AttCookies(a)
    \/ \E a \in DOMAIN att : AttFinallyContext(a)
    \/ \E a \in DOMAIN att : AttFinallyBrowser(a)
    \/ \E a \in DOMAIN att : AttFinallyPlaywright(a)

ConcSpec == ConcInit /\ [][ConcNext]_vars

(***************************************************************************)
(* Vocabulary of the properties                                            *)
(***************************************************************************)
\* The attempt is over: naver_login has returned or raised.
Ended == outcome # "none"

Done == pc = "done"

\* Names of the cookies of a list.
Names(cookies) == {cookies[i].name : i \in DOMAIN cookies}

AuthMarkers == {"NID_AUT", "NID_SES", "NID_JKL"}

\* Challenge markers in every spelling of their letters' case that a
\* location of PostUrls uses.
ChallengeTokens == {"captcha", "verify", "CAPTCHA"}

\* The wait for the canonical location timed out (the except branch ran).
TimedOut == current_url # <<>>

\* The attempt got as far as the submit step (lines 210-263).
ReachedSubmit == submits # <<>> \/ (resp.set /\ resp.r.message = MsgButtonNotFound)

ErrorPrefix == "error occurred: "

(***************************************************************************)
(* C1. When the attempt has ended, every resource that was acquired        *)
(* (control connection, browser handle, browsing context) has had its      *)
(* stop/close invoked exactly once, and a resource that was never acquired *)
(* has had none.                                                           *)
(***************************************************************************)
C1_ReleasedExactlyOnce ==
    Ended =>
        \A r \in Resources :
            /\ acquired[r] <= 1
            /\ released[r] = acquired[r]

\* A fault while classifying, with all three resources acquired and released.
C1_Witness ==
    /\ Ended
    /\ site = "context.cookies"
    /\ \A r \in Resources : acquired[r] = 1 /\ released[r] = 1

(***************************************************************************)
(* C2. With BROWSERLESS_WS_URL missing or empty, naver_login produces no   *)
(* LoginResponse: the configuration error escapes to login_endpoint, which *)
(* answers 5xx, and nothing was opened; and only configuration errors      *)
(* escape. (Stated as claimed; the code returns a response instead.)       *)
(***************************************************************************)
C2_ConfigErrorEscapes ==
    Done =>
        /\ ~Configured =>
              /\ outcome = "raised"
              /\ ~resp.set
              /\ http = 500
              /\ \A r \in Resources : acquired[r] = 0
        /\ outcome = "raised" => ~Configured

(***************************************************************************)
(* C3. With the endpoint configured, whatever the faults and timeouts of   *)
(* the remote side, naver_login eventually ends, and it ends by returning  *)
(* a LoginResponse, not by raising.                                        *)
(***************************************************************************)
C3_TerminatesWithResponse ==
    Configured => <>(Done /\ outcome = "returned" /\ resp.set /\ ~exc.set)

\* An attempt that met a fault and still returned a response.
C3_Witness ==
    /\ Done
    /\ Configured
    /\ site # ""
    /\ outcome = "returned"
    /\ resp.set

(***************************************************************************)
(* C4. A response with success=true is returned only if the wait for the   *)
(* canonical URL completed, or the cookies read from the context contained *)
(* an authentication-marker name.                                          *)
(***************************************************************************)
C4_SuccessOnlyWithEvidence ==
    (resp.set /\ resp.r.success) =>
        \/ waitOk
        \/ collected.set /\ Names(collected.list) \cap AuthMarkers # {}

\* Success on the fall-through branch: no redirect, a marker cookie.
C4_Witness ==
    /\ Done
    /\ resp.set
    /\ resp.r.success
    /\ ~waitOk

C6_LoginPageRejectedNoMarker ==
    (Done /\ TimedOut /\ "nidlogin.login" \in Range(pageUrl)) =>
        /\ resp.set
        /\ resp.r.message = MsgLoginFailed
        /\ Names(ctxCookies) \cap AuthMarkers = {}

(***************************************************************************)
(* C6 as amended. If the location contains nidlogin.login and no challenge *)
(* marker when the wait times out, the result is Rejected (invalid         *)
(* credentials) without cookies, whatever cookies the context holds: they  *)
(* are not read on this path.                                              *)
(***************************************************************************)
C6_LoginPageRejected ==
    (Ended /\ TimedOut /\ "nidlogin.login" \in Range(pageUrl)
           /\ Range(pageUrl) \cap ChallengeTokens = {}) =>
        /\ resp.set
        /\ ~resp.r.success
        /\ resp.r.message = MsgLoginFailed
        /\ ~resp.r.cookies.present
        /\ ~collected.set

\* Rejected on the login page while the context holds a marker cookie.
C6_Witness ==
    /\ Done
    /\ TimedOut
    /\ pageUrl = LoginUrl
    /\ "NID_AUT" \in Names(ctxCookies)
    /\ resp.r.message = MsgLoginFailed

(***************************************************************************)
(* C7. If the post-submit location contains a challenge marker (captcha or *)
(* verify, in any letter case), the result is ChallengeRequired, whatever  *)
(* the cookies, also on the login page and under the authentication        *)
(* domain.                                                                 *)
(***************************************************************************)
C7_ChallengeWins ==
    (Ended /\ submits # <<>> /\ Range(pageUrl) \cap ChallengeTokens # {}) =>
        /\ resp.set
        /\ ~resp.r.success
        /\ resp.r.message = MsgChallenge
        /\ ~resp.r.cookies.present

\* A challenge marker on the login page, with a marker cookie present.
C7_Witness ==
    /\ Done
    /\ pageUrl = LoginUrl \o <<"?mode=", "verify">>
    /\ "NID_AUT" \in Names(ctxCookies)
    /\ resp.r.message = MsgChallenge

(***************************************************************************)
(* C8. For every username and password, the empty ones included, the       *)
(* characters typed into #id spell the username, those typed into #pw      *)
(* spell the password, and the attempt goes on to the submit step, unless  *)
(* the remote side raised a fault. (Stated as claimed; the code fails on   *)
(* an empty username with a non-empty password.)                           *)
(***************************************************************************)
C8_TypedVerbatim ==
    (Done /\ Configured /\ site = "") =>
        /\ Typed("#id") = username
        /\ Typed("#pw") = password
        /\ ReachedSubmit

(***************************************************************************)
(* C9 as claimed. If resolving #id or #pw fails, the result is a failure   *)
(* whose message names the missing field, and no submit was performed.     *)
(***************************************************************************)
C9_FieldSpecificDiagnostic ==
    (Done /\ site \in Fields) =>
        /\ resp.set
        /\ ~resp.r.success
        /\ Contains(resp.r.message, site)
        /\ submits = <<>>

(***************************************************************************)
(* C9 as amended. If resolving #id or #pw fails, the result is the generic *)
(* failure (success=false, no cookies, the error prefix followed by the    *)
(* text of the underlying error, as for any other fault), and no submit    *)
(* was performed.                                                          *)
(***************************************************************************)
C9_FieldFailureRejected ==
    (Ended /\ site \in Fields) =>
        /\ resp.set
        /\ ~resp.r.success
        /\ ~resp.r.cookies.present
        /\ Len(resp.r.message) > 1
        /\ Head(resp.r.message) = ErrorPrefix
        /\ Tail(resp.r.message) \in {Str(e) : e \in Faults(site)}
        /\ submits = <<>>
        /\ ~login_clicked

\* The secret field is gone: a generic message that does not name it.
C9_Witness ==
    /\ Done
    /\ site = "#pw"
    /\ resp.r.message = <<ErrorPrefix, "Target closed">>
    /\ Typed("#id") = username

C11_CookiesFoldedByName ==
    (resp.set /\ resp.r.cookies.present) =>
        /\ collected.set
        /\ collected.list = ctxCookies
        /\ DOMAIN resp.r.cookies.map = Names(ctxCookies)
        /\ \A i \in DOMAIN ctxCookies :
               (\A j \in DOMAIN ctxCookies :
                    ctxCookies[j].name = ctxCookies[i].name => j <= i)
               => resp.r.cookies.map[ctxCookies[i].name] = ctxCookies[i].value

\* Two cookies of one name with different values: the later value is returned.
C11_Witness ==
    /\ Done
    /\ resp.r.cookies.present
    /\ ctxCookies = << [name |-> "lang", value |-> "1"],
                       [name |-> "lang", value |-> "2"] >>
    /\ resp.r.cookies.map["lang"] = "2"

(***************************************************************************)
(* C12. If every connection candidate fails, connect_to_browserless raises *)
(* the error of the last candidate tried, after stopping the Playwright    *)
(* control channel, which naver_login does not stop a second time; the     *)
(* attempt ends as a failure with a diagnostic and no cookies. (Stated as  *)
(* claimed; in the code a failing stop() replaces the error raised.)       *)
(***************************************************************************)
C12_ConnectFailureRaisesLastError ==
    /\ [][ /\ pc = "candidate_failed" => last_error' = last_error
           /\ pc = "all_failed" => last_error.set /\ exc' = last_error
           /\ pc = "connect_except" =>
                  /\ released'["playwright"] = released["playwright"] + 1
                  /\ exc' = exc ]_vars
    /\ [](Ended /\ site = "connect_over_cdp" =>
              /\ released["playwright"] = 1
              /\ resp.set
              /\ ~resp.r.success
              /\ Len(resp.r.message) > 1
              /\ ~resp.r.cookies.present)

(***************************************************************************)
(* C13. In every interleaving of the concurrent attempts, each attempt     *)
(* holds handles of its own (control connection, browser, context), no     *)
(* call of an attempt (read, close, stop, open) is made on a resource that *)
(* was created for another attempt, and the cookies an attempt returns     *)
(* were set in its own context.                                            *)
(***************************************************************************)
C13_AttemptsIsolated ==
    /\ \A u \in uses : remote[u.id].by = u.by
    /\ \A a \in DOMAIN att :
           /\ att[a].playwright # 0 =>
                  remote[att[a].playwright] =
                      [kind |-> "playwright", by |-> a, jar |-> <<>>]
           /\ att[a].browser # 0 =>
                  remote[att[a].browser] = [kind |-> "browser", by |-> a, jar |-> <<>>]
           /\ att[a].context # 0 =>
                  /\ remote[att[a].context].kind = "context"
                  /\ remote[att[a].context].by = a
           /\ att[a].cookies.set =>
                  /\ att[a].cookies.list = remote[att[a].context].jar
                  /\ \A i \in DOMAIN att[a].cookies.list :
                         att[a].cookies.list[i].value = att[a].context
    /\ \A a, b \in DOMAIN att :
           a # b =>
               {att[a].playwright, att[a].browser, att[a].context}
                   \cap {att[b].playwright, att[b].browser, att[b].context} \subseteq {0}

\* Two attempts, interleaved (each acquired a resource between two
\* acquisitions of the other), both ended after returning cookies.
C13_Witness ==
    /\ att # <<>>
    /\ \A a \in DOMAIN att :
           /\ att[a].pc = "done"
           /\ att[a].cookies.set
           /\ att[a].cookies.list # <<>>
    /\ att[1].playwright < att[2].playwright
    /\ att[2].playwright < att[1].browser
    /\ att[1].context < att[2].context
    /\ \A a \in DOMAIN att :
           {[by |-> a, id |-> att[a].context, op |-> "close"],
            [by |-> a, id |-> att[a].browser, op |-> "close"],
            [by |-> a, id |-> att[a].playwright, op |-> "stop"]} \subseteq uses

(***************************************************************************)
(* C14. No log record and no message of a response contains a character    *)
(* of the password: of the password, the log shows the length read back    *)
(* from the field and nothing else.  (Passwords are drawn from an alphabet *)
(* of their own, so a password character in a text can only have come from *)
(* the password; no guard of the model reads the password's content, so    *)
(* two passwords of one length drive the same steps.)                      *)
(***************************************************************************)
SecretFree(text) == \A i \in DOMAIN text : text[i] \notin SecretChars

C14_SecretNotDisclosed ==
    /\ \A i \in DOMAIN logged : SecretFree(logged[i])
    /\ resp.set => SecretFree(resp.r.message)
    /\ (pc = "query_selector" /\ selIdx = 1) =>
           logged = << <<ToString(Len(password))>> >>

\* The password was typed and read back, and its length logged.
C14_Witness ==
    /\ pc = "query_selector"
    /\ selIdx = 1
    /\ Len(password) = MaxPassLen
    /\ Typed("#pw") = password
    /\ logged = << <<ToString(MaxPassLen)>> >>

(***************************************************************************)
(* C15. Both fields are resolved before any input is driven into either:   *)
(* when the secret field cannot be resolved, no keystroke (clear or        *)
(* character) has been dispatched into the identity field.                 *)
(* (Stated as claimed; the code drives the identity field first.)          *)
(***************************************************************************)
C15_ResolvedBeforeInput ==
    site = "#pw" => keys["#id"] = <<>>

(***************************************************************************)
(* C15, amended.  The input steps run field by field: the identity field   *)
(* is resolved and driven (cleared, the username typed, Tab pressed)       *)
(* before the secret field is resolved.  When the secret field cannot be   *)
(* resolved, the identity field has received exactly those keystrokes, the *)
(* secret field none, no submit action has been made, and the attempt ends *)
(* in a failure response.                                                  *)
(***************************************************************************)
C15_IdentityDrivenFirst ==
    /\ keys["#pw"] # <<>> => Typed("#id") = username
    /\ site = "#pw" =>
           /\ keys["#id"] = <<"Control+A", "Delete">> \o username \o <<"Tab">>
           /\ keys["#pw"] = <<>>
           /\ submits = <<>>
           /\ ~waitOk
           /\ Ended => resp.set /\ ~resp.r.success

\* The secret field could not be resolved after a username of full length
\* had been typed.
C15_Witness ==
    /\ Done
    /\ site = "#pw"
    /\ Len(username) = MaxUserLen
    /\ Typed("#id") = username
    /\ keys["#pw"] = <<>>

(***************************************************************************)
(* C16. When the attempt has ended, the releases made are those of the     *)
(* resources acquired, in the order context, browser handle, control       *)
(* connection (the reverse of acquisition); and each step of the finally   *)
(* clause attempts its release and hands over to the next step, whether or *)
(* not the release before it failed.                                       *)
(***************************************************************************)
WasAcquired(r) == acquired[r] = 1

C16_ReleasedInReverseOrder ==
    /\ [](Ended =>
              releaseOrder = SelectSeq(<<"context", "browser", "playwright">>, WasAcquired))
    /\ [][ /\ pc = "finally_context" =>
                  /\ pc' = "finally_browser"
                  /\ contextBound => releaseOrder' = Append(releaseOrder, "context")
           /\ pc = "finally_browser" =>
                  /\ pc' = "finally_playwright"
                  /\ browser # 0 => releaseOrder' = Append(releaseOrder, "browser")
           /\ pc = "finally_playwright" =>
                  /\ pc' = "login_return"
                  /\ playwright => releaseOrder' = Append(releaseOrder, "playwright")
         ]_vars

\* The attempt has a success to return, closing the browser has just failed,
\* and control is at the stop of the control connection.
C16_Witness ==
    /\ pc = "finally_playwright"
    /\ resp.set
    /\ resp.r.success
    /\ releaseFailed
    /\ playwright
    /\ releaseOrder = <<"context", "browser">>

(***************************************************************************)
(* C17. The submit step is a ranked fallback chain.  Candidates are probed *)
(* in list order; a candidate that is found and visible is clicked,        *)
(* enabled or not; a fault while probing or clicking a candidate moves on  *)
(* to the next candidate and never leaves the step; Enter is pressed on    *)
(* the secret field only after every candidate has been tried without a    *)
(* click; "submit control not found" is returned exactly when neither a    *)
(* click nor the Enter succeeded; and classification runs only after       *)
(* exactly one submit action.                                              *)
(***************************************************************************)
ProbeSteps == {"query_selector", "is_visible", "is_enabled", "inner_text", "click"}

ClassifySteps == {"wait_for_url", "cookies_redirect", "read_url", "page_title",
                  "error_selectors", "classify_url", "cookies_fallthrough"}

C17_SubmitFallbackChain ==
    /\ [](/\ Len(submits) <= 1
          /\ pc \in ProbeSteps =>
                 /\ submits = <<>>
                 /\ selIdx \in 1..(Len(login_button_selectors) + 1)
          /\ pc = "enter_fallback" => submits = <<>>
          /\ pc \in ClassifySteps => Len(submits) = 1
          /\ (resp.set /\ resp.r.message = MsgButtonNotFound) =>
                 submits = <<>> /\ ~resp.r.success)
    /\ [][ /\ pc \in ProbeSteps \cup {"enter_fallback"} => pc' # "login_except"
           /\ pc \in ProbeSteps =>
                  \/ selIdx' = selIdx /\ pc' \in ProbeSteps \ {"query_selector"}
                  \/ selIdx' = selIdx + 1 /\ pc' = "query_selector" /\ submits' = submits
                  \/ /\ pc' = "check_clicked"
                     /\ pc = "click"
                     /\ button.found
                     /\ button.is_visible
                     /\ submits' = <<"click">>
                  \/ /\ pc' = "enter_fallback"
                     /\ pc = "query_selector"
                     /\ selIdx = Len(login_button_selectors) + 1
           /\ (pc = "inner_text" /\ button.is_visible) => pc' = "click"
           /\ pc = "enter_fallback" =>
                  /\ pc' = "check_clicked"
                  /\ submits' \in {<<>>, <<"Enter">>}
           /\ pc = "check_clicked" =>
                  IF submits = <<>>
                  THEN resp' = LoginResponse(FALSE, MsgButtonNotFound, None)
                  ELSE pc' = "wait_for_url" /\ resp' = resp
         ]_vars

\* The last candidate, after all the others were no match, is visible and
\* disabled, and is about to be clicked.
C17_Witness ==
    /\ pc = "click"
    /\ selIdx = Len(login_button_selectors)
    /\ button.found
    /\ button.is_visible
    /\ ~button.is_enabled

(***************************************************************************)
(* C18. After the wait for the canonical location has timed out, at a      *)
(* location with no challenge marker that is not the login page, and with  *)
(* no fault: if the location is under the authentication domain (its host  *)
(* is nid.naver.com) the response is "manual verification needed", without *)
(* cookies; otherwise the cookies have been collected, and the response is *)
(* a success exactly when a marker cookie is among them and "uncertain",   *)
(* with the current URL, exactly when none is.                             *)
(* (Stated as claimed; the code looks for the domain anywhere in the URL.) *)
(***************************************************************************)
Host(url) == IF Len(url) >= 2 THEN url[2] ELSE ""

C18_AuthDomainOrCookies ==
    (Ended /\ TimedOut /\ site = ""
        /\ ~IsChallenge(current_url) /\ ~IsLoginPage(current_url)) =>
        IF Host(current_url) = "nid.naver.com"
        THEN resp = LoginResponse(FALSE, MsgManualVerification, None)
        ELSE /\ collected.set
             /\ collected.list = ctxCookies
             /\ IF Names(ctxCookies) \cap AuthMarkers # {}
                THEN resp = LoginResponse(TRUE, MsgSuccessAt(current_url),
                                          Some(CookieDict(ctxCookies)))
                ELSE resp = LoginResponse(FALSE, MsgUncertain(current_url), None)

(***************************************************************************)
(* C19. connect_to_browserless tries its candidates in list order.  The    *)
(* first candidate whose connect call returns a handle ends the loop: the  *)
(* probe of that handle, whether it succeeds or fails, is followed by the  *)
(* return of that handle and by no further connect call.  So at most one   *)
(* browser is ever opened, exactly that one is open and returned when the  *)
(* function returns, and the function gets to raise only after every       *)
(* candidate has been tried and none yielded a handle.                     *)
(***************************************************************************)
ProbingHandle == pc \in {"probe_new_page", "probe_page_close"}

C19_FirstHandleWins ==
    /\ [](/\ Cardinality(opened) <= 1
          /\ ProbingHandle =>
                 /\ c_browser # 0
                 /\ opened = {c_browser}
                 /\ optIdx \in 1..Len(connection_options)
          /\ pc \in {"candidate_failed", "all_failed", "connect_except"} =>
                 opened = {}
          /\ pc = "all_failed" => optIdx = Len(connection_options) + 1)
    /\ [][ /\ pc = "connect_loop" =>
                  /\ optIdx' = optIdx
                  /\ pc' \in {"probe_new_page", "candidate_failed", "all_failed"}
                  /\ pc' = "all_failed" <=> optIdx > Len(connection_options)
           /\ pc = "candidate_failed" =>
                  /\ optIdx' = optIdx + 1
                  /\ pc' = "connect_loop"
           /\ ProbingHandle =>
                  /\ pc' \in {"probe_page_close", "new_context"}
                  /\ opened' = opened
                  /\ pc' = "new_context" =>
                         /\ browser' = c_browser
                         /\ playwright'
                         /\ exc' = exc
           /\ (pc' = "new_context" /\ pc # "new_context") =>
                  /\ ProbingHandle
                  /\ opened' = {browser'}
         ]_vars

\* The third candidate yielded a handle after two had failed; the handle is
\* about to be probed.
C19_Witness ==
    /\ pc = "probe_new_page"
    /\ optIdx = 3
    /\ opened = {1}
    /\ c_browser = 1
    /\ last_error.set

(***************************************************************************)
(* C20. In every response of naver_login the cookies field is present      *)
(* exactly when success is true; a response that is not a success carries  *)
(* no cookie mapping, also when the context's cookies had been collected.  *)
(***************************************************************************)
C20_CookiesIffSuccess ==
    resp.set =>
        /\ resp.r.cookies.present <=> resp.r.success
        /\ resp.r.cookies.present =>
               /\ cookie_dict.set
               /\ resp.r.cookies.map = cookie_dict.map
        /\ ~resp.r.cookies.present => resp.r.cookies = None

\* The cookies were collected, no marker was among them, and the response
\* returned is "uncertain", without cookies.
C20_Witness ==
    /\ Done
    /\ collected.set
    /\ collected.list # <<>>
    /\ ~resp.r.success
    /\ ~resp.r.cookies.present
    /\ resp.r.message = MsgUncertain(current_url)

====
